---------------------------- MODULE Spec2Model ----------------------------
(***************************************************************************)
(* Model of .github/scripts/aicomment.js: one invocation of the script,    *)
(* from configuration validation to process exit.                          *)
(*                                                                         *)
(* Text is modelled at character level: a JavaScript string is a sequence  *)
(* of one-character strings, so that trim, startsWith, substring, split,   *)
(* toLowerCase and the two regular-expression replaces are computed as the *)
(* script computes them.  Fixed template text of the comments the script   *)
(* writes is kept as single multi-character elements of such a sequence.   *)
(***************************************************************************)
EXTENDS Integers, Sequences, FiniteSets, TLC

(***************************************************************************)
(* Bounds of the model.                                                    *)
(***************************************************************************)
\* longest comment list the comment store returns to listComments
MaxComments == 2

(***************************************************************************)
(* Characters and the string operations of JavaScript the script uses.     *)
(***************************************************************************)
WhiteSpace == {" ", "\t", "\n", "\r"}

UpperCase == <<"A","B","C","D","E","F","G","H","I","J","K","L","M",
               "N","O","P","Q","R","S","T","U","V","W","X","Y","Z">>

LowerCase == <<"a","b","c","d","e","f","g","h","i","j","k","l","m",
               "n","o","p","q","r","s","t","u","v","w","x","y","z">>

Digits == <<"0","1","2","3","4","5","6","7","8","9">>

Range(s) == { s[i] : i \in 1..Len(s) }

\* the class [\w-] of the regular expression on line 210
WordChar == Range(UpperCase) \cup Range(LowerCase) \cup Range(Digits) \cup {"_", "-"}

\* String.prototype.toLowerCase, one character
LowerChar(c) ==
  IF \E i \in 1..26 : UpperCase[i] = c
  THEN LowerCase[CHOOSE i \in 1..26 : UpperCase[i] = c]
  ELSE c

ToLowerCase(s) == [ i \in 1..Len(s) |-> LowerChar(s[i]) ]

\* String.prototype.trimStart / trimEnd / trim
RECURSIVE TrimStart(_)
TrimStart(s) ==
  IF s # <<>> /\ Head(s) \in WhiteSpace THEN TrimStart(Tail(s)) ELSE s

RECURSIVE TrimEnd(_)
TrimEnd(s) ==
  IF s # <<>> /\ s[Len(s)] \in WhiteSpace
  THEN TrimEnd(SubSeq(s, 1, Len(s) - 1))
  ELSE s

Trim(s) == TrimEnd(TrimStart(s))

\* String.prototype.startsWith
StartsWith(s, p) == Len(s) >= Len(p) /\ SubSeq(s, 1, Len(p)) = p

\* String.prototype.substring(n): the characters from 0-based index n on
Substring(s, n) == SubSeq(s, n + 1, Len(s))

\* occurrence of p in s at 1-based position i
OccursAt(s, p, i) ==
  i >= 1 /\ i + Len(p) - 1 <= Len(s) /\ SubSeq(s, i, i + Len(p) - 1) = p

\* String.prototype.includes
Includes(s, p) == \E i \in 1..(Len(s) + 1) : OccursAt(s, p, i)

\* String.prototype.split(/\s+/)
RECURSIVE SplitWs(_)
SplitWs(s) ==
  IF \A i \in 1..Len(s) : s[i] \notin WhiteSpace
  THEN << s >>
  ELSE LET i == CHOOSE k \in 1..Len(s) :
                  /\ s[k] \in WhiteSpace
                  /\ \A m \in 1..(k - 1) : s[m] \notin WhiteSpace
           rest == TrimStart(SubSeq(s, i, Len(s)))
       IN  << SubSeq(s, 1, i - 1) >> \o SplitWs(rest)

\* Array.prototype.join(sep)
RECURSIVE Join(_, _)
Join(parts, sep) ==
  IF parts = <<>> THEN <<>>
  ELSE IF Len(parts) = 1 THEN parts[1]
  ELSE parts[1] \o sep \o Join(Tail(parts), sep)

(***************************************************************************)
(* Words and literals.                                                     *)
(***************************************************************************)
\* '/ai ', the literal of lines 197 and 238
TriggerMarker == <<"/","a","i"," ">>

\* '<!-- AI_RESPONSE -->', the literal of lines 198, 211 and 295
AiResponseMarker ==
  <<"<","!","-","-"," ","A","I","_","R","E","S","P","O","N","S","E"," ","-","-",">">>

W_default == <<"d","e","f","a","u","l","t">>
W_gpt == <<"g","p","t">>
W_Gpt == <<"G","p","t">>
W_ds == <<"d","s">>
W_constructor == <<"c","o","n","s","t","r","u","c","t","o","r">>
W_proto == <<"_","_","p","r","o","t","o","_","_">>
W_hi == <<"h","i">>
W_fix == <<"f","i","x">>
W_User == <<"U","s","e","r">>


(***************************************************************************)
(* JavaScript values.  A model identifier is kept as one TLA+ string; the  *)
(* values a property lookup can yield besides a string are named here.     *)
(***************************************************************************)
Undefined == "undefined"
\* Object.prototype.constructor and Object.prototype, which every object
\* that JSON.parse returns inherits
ObjectConstructor == "[Function: Object]"
ObjectPrototype == "[Object: null prototype] {}"

\* truthiness of a looked-up value (lines 253, 267)
Truthy(v) == v \notin {Undefined, ""}

\* numbers as parseInt returns them: NaN or an integer
NaN == [t |-> "NaN", n |-> 0]
Null == [t |-> "null", n |-> 0]
Num(k) == [t |-> "number", n |-> k]

\* truthiness of a number or null (line 50)
TruthyNum(v) == v.t = "number" /\ v.n # 0

DigitValue(c) == (CHOOSE i \in 1..10 : Digits[i] = c) - 1

RECURSIVE DigitsToInt(_, _)
DigitsToInt(s, acc) ==
  IF s # <<>> /\ Head(s) \in Range(Digits)
  THEN DigitsToInt(Tail(s), 10 * acc + DigitValue(Head(s)))
  ELSE acc

\* parseInt(s, 10) on unsigned input: leading white space skipped, the
\* longest prefix of decimal digits converted, NaN when there is none
ParseInt(s) ==
  LET t == TrimStart(s)
  IN  IF t # <<>> /\ Head(t) \in Range(Digits) THEN Num(DigitsToInt(t, 0)) ELSE NaN

(***************************************************************************)
(* The model map: the object JSON.parse returns for model-map.json, as the *)
(* sequence of its own properties in insertion order.                      *)
(***************************************************************************)
OwnKeys(m) == [ i \in 1..Len(m) |-> m[i].key ]

HasOwn(m, k) == \E i \in 1..Len(m) : m[i].key = k

\* modelMap[k]: an own property, else a property inherited from
\* Object.prototype.  Of the inherited names only "constructor" and
\* "__proto__" are all lower case, so only they can equal a lower-cased token.
Lookup(m, k) ==
  IF HasOwn(m, k) THEN m[CHOOSE i \in 1..Len(m) : m[i].key = k].value
  ELSE IF k = W_constructor THEN ObjectConstructor
  ELSE IF k = W_proto THEN ObjectPrototype
  ELSE Undefined

TableDefaultOnly == << [key |-> W_default, value |-> "openai/gpt-4o"] >>

TableFull ==
  << [key |-> W_gpt, value |-> "openai/gpt-4o"],
     [key |-> W_ds, value |-> "deepseek/DeepSeek-V3-0324"],
     [key |-> W_default, value |-> "openai/gpt-4o-mini"] >>

TableNoDefault ==
  << [key |-> W_gpt, value |-> "openai/gpt-4o"],
     [key |-> W_ds, value |-> "deepseek/DeepSeek-V3-0324"] >>

\* the object of a file holding {}
TableEmpty == <<>>

Tables == {TableDefaultOnly, TableFull, TableNoDefault, TableEmpty}

\* what loadModelMap finds at mapPath
ModelMapFiles ==
  { [state |-> "ok", table |-> t] : t \in Tables }
    \cup { [state |-> "missing", table |-> <<>>],
           [state |-> "malformed", table |-> <<>>] }

(***************************************************************************)
(* main, lines 236-264: the command parser and model resolver.             *)
(***************************************************************************)
\* line 238
IsTrigger_NoSpace(commentText) == StartsWith(commentText, <<"/","a","i">>)

IsTrigger(commentText) == StartsWith(commentText, TriggerMarker)

\* line 244
CommandContent(commentText) == Trim(Substring(commentText, 4))

\* lines 245-264, with a silent fallback to the first entry of the table
\* when "default" is missing
ParseCommand_Fallback(commentText, modelMap) ==
  LET commandContent == CommandContent(commentText)
      parts == SplitWs(commandContent)
      potentialAlias == ToLowerCase(parts[1])
  IN  IF Truthy(Lookup(modelMap, potentialAlias))
      THEN [modelAlias |-> potentialAlias,
            modelIdentifier |-> Lookup(modelMap, potentialAlias),
            prompt |-> Join(Tail(parts), <<" ">>)]
      ELSE [modelAlias |-> W_default,
            modelIdentifier |-> IF HasOwn(modelMap, W_default) \/ modelMap = <<>>
                                THEN Lookup(modelMap, W_default)
                                ELSE modelMap[1].value,
            prompt |-> commandContent]

\* lines 245-264
ParseCommand(commentText, modelMap) ==
  LET commandContent == CommandContent(commentText)
      parts == SplitWs(commandContent)
      potentialAlias == ToLowerCase(parts[1])
  IN  IF Truthy(Lookup(modelMap, potentialAlias))
      THEN [modelAlias |-> potentialAlias,
            modelIdentifier |-> Lookup(modelMap, potentialAlias),
            prompt |-> Join(Tail(parts), <<" ">>)]
      ELSE [modelAlias |-> W_default,
            modelIdentifier |-> Lookup(modelMap, W_default),
            prompt |-> commandContent]

\* lines 267-283 with the empty-prompt check left out
MainBranch_NoPromptCheck(p) ==
  IF ~Truthy(p.modelIdentifier) THEN "no_model" ELSE "generate"

\* lines 267-283: which of the three continuations main takes
MainBranch(p) ==
  IF ~Truthy(p.modelIdentifier) THEN "no_model"
  ELSE IF p.prompt = <<>> THEN "help"
  ELSE "generate"

\* lines 268 and 274: the alias list of the help comments.  The backquote
\* of the source text is written ' in every literal of this module.
AvailableAliases(modelMap) ==
  <<"'">> \o Join(SelectSeq(OwnKeys(modelMap), LAMBDA k : k # W_default), <<"', '">>)
          \o <<"'">>

\* line 269
NoModelText ==
  "I could not find a model to use. Please specify one or ensure a \"default\" is configured.\n\nAvailable models: "

NoModelBody(modelMap) == << NoModelText >> \o AvailableAliases(modelMap)

\* line 275
UsageText ==
  "It looks like you used the '/ai' command without a question. Please provide a prompt.\n\n**Usage:**\n* '/ai <your prompt>' (uses default model)\n* '/ai <model> <your prompt>'\n\n**Available models:** "

UsageBody(modelMap) == << UsageText >> \o AvailableAliases(modelMap)

\* line 295
ResponseWithTag(commentAuthor, aiResponse) ==
  <<"@">> \o commentAuthor \o <<"\n","\n">> \o aiResponse \o <<"\n","\n">>
          \o AiResponseMarker

\* line 320
CautionText ==
  "> [!CAUTION]\n> Sorry, I encountered an error and could not process your request:\n> '"

CautionBody(message) == << CautionText >> \o message \o <<"'">>

\* line 165
AiFailureMessage(backendMessage) == <<"AI API call failed: ">> \o backendMessage

(***************************************************************************)
(* getIssueContext, lines 196-221: the classification of one comment.      *)
(***************************************************************************)
RECURSIVE DropWordChars(_)
DropWordChars(s) ==
  IF s # <<>> /\ Head(s) \in WordChar THEN DropWordChars(Tail(s)) ELSE s

\* line 210: replace(/^@[\w-]+\s*\n*/, '').  The greedy \s* takes every
\* white-space character after the mention, line feeds included.
StripMention(s) ==
  IF Len(s) >= 2 /\ s[1] = "@" /\ s[2] \in WordChar
  THEN TrimStart(DropWordChars(Tail(s)))
  ELSE s

\* the position of a marker that only white space follows, 0 when none
MarkerAtEnd(s) ==
  LET n == Len(AiResponseMarker)
      ok(j) == /\ OccursAt(s, AiResponseMarker, j)
               /\ \A k \in (j + n)..Len(s) : s[k] \in WhiteSpace
  IN  IF \E j \in 1..Len(s) : ok(j) THEN CHOOSE j \in 1..Len(s) : ok(j) ELSE 0

\* the first position of the run of line feeds that ends right before j
RECURSIVE LineFeedRunStart(_, _)
LineFeedRunStart(s, j) ==
  IF j > 1 /\ s[j - 1] = "\n" THEN LineFeedRunStart(s, j - 1) ELSE j

\* line 211: replace(/\n*<!-- AI_RESPONSE -->\s*$/, '')
StripMarker(s) ==
  LET j == MarkerAtEnd(s)
  IN  IF j = 0 THEN s ELSE SubSeq(s, 1, LineFeedRunStart(s, j) - 1)

\* line 205
UserPromptContent(body) == Trim(Substring(body, 4))

\* lines 209-212
AssistantContent(body) == Trim(StripMarker(StripMention(body)))

\* lines 196-220: the callback of comments.map
ClassifyComment(comment) ==
  LET isUserPrompt == StartsWith(Trim(comment.body), TriggerMarker)
      isAIResponse == Includes(comment.body, AiResponseMarker)
  IN  [role |-> IF isUserPrompt THEN "user_prompt"
                ELSE IF isAIResponse THEN "assistant"
                ELSE "user",
       author |-> comment.user,
       timestamp |-> comment.created_at,
       content |-> IF isUserPrompt THEN UserPromptContent(comment.body)
                   ELSE IF isAIResponse THEN AssistantContent(comment.body)
                   ELSE comment.body]

\* line 196: comments.map(...)
ConversationHistory(comments) ==
  [ i \in 1..Len(comments) |-> ClassifyComment(comments[i]) ]

(***************************************************************************)
(* Inputs of one invocation.                                               *)
(***************************************************************************)
\* the environment the workflow passes, lines 10-22; a token or a
\* repository coordinate is TRUE when the variable is set and not empty
GoodEnv ==
  [GH_AI_TOKEN |-> TRUE, GITHUB_TOKEN |-> TRUE, ISSUE_NUMBER |-> <<"7">>,
   REPO_OWNER |-> TRUE, REPO_NAME |-> TRUE]

Envs ==
  { GoodEnv,
    [GoodEnv EXCEPT !.GH_AI_TOKEN = FALSE],
    [GoodEnv EXCEPT !.GITHUB_TOKEN = FALSE],
    [GoodEnv EXCEPT !.GH_AI_TOKEN = FALSE, !.GITHUB_TOKEN = FALSE],
    [GoodEnv EXCEPT !.ISSUE_NUMBER = <<>>],
    [GoodEnv EXCEPT !.ISSUE_NUMBER = <<"0">>],
    [GoodEnv EXCEPT !.REPO_OWNER = FALSE],
    [GoodEnv EXCEPT !.REPO_NAME = FALSE] }

\* the command texts of the triggering comment
Commands ==
  LET ai == <<"/","a","i">>
      sp == <<" ">>
      nl == <<"\n">>
  IN  { ai,
        ai \o sp,
        ai \o sp \o sp \o nl,
        ai \o nl \o W_hi,
        ai \o W_hi \o sp \o W_fix,
        W_hi \o sp \o ai \o sp \o W_fix,
        <<"/","A","I">> \o sp \o W_hi,
        ai \o sp \o W_hi,
        ai \o sp \o W_fix \o sp \o W_hi,
        ai \o sp \o W_fix \o sp \o sp \o W_hi,
        ai \o sp \o W_gpt,
        ai \o sp \o W_gpt \o sp \o W_fix \o sp \o W_hi,
        ai \o sp \o W_Gpt \o sp \o W_fix \o nl \o W_hi,
        ai \o sp \o sp \o W_ds \o sp \o sp \o W_fix,
        ai \o sp \o W_default \o sp \o W_hi,
        ai \o sp \o W_constructor \o sp \o W_fix,
        ai \o sp \o W_constructor }

\* the commands that are also given with white space around them
PaddedCommands ==
  LET ai == <<"/","a","i">>
      sp == <<" ">>
  IN  { ai,
        ai \o sp \o W_hi,
        ai \o sp \o W_gpt,
        ai \o sp \o W_gpt \o sp \o W_fix \o sp \o W_hi }

\* COMMENT_BODY: a command as typed, or with white space around it
CommentBodies ==
  Commands
    \cup { <<" ">> \o c \o <<"\n">> : c \in PaddedCommands }
    \cup { <<>>, <<" ">> }

\* the values of PROCESSING_COMMENT_ID
ProcessingCommentIds == { <<>>, <<"4","2">>, <<"0">>, <<"x">> }

\* the values of COMMENT_AUTHOR; <<>> is the variable unset or empty
\* the login of an app ends in "[bot]"
CommentAuthors == { <<>>, <<"b","o","b","-","1">>, <<"c","i","[","b","o","t","]">> }

\* the completion texts of the model backend
AiResponses == { W_hi, <<" ">> \o W_fix \o <<"\n">> }

\* the error messages of the model backend
BackendMessages == { <<"rate limited">>, <<"unknown model">> }

\* the comments of the issue in the comment store
StoredComments ==
  LET c(b) == [body |-> b, user |-> "alice", created_at |-> "2025-01-01T00:00:00Z"]
      ai == <<"/","a","i">>
  IN  { c(W_hi),
        c(ai \o <<" ">> \o W_fix),
        c(<<" ", " ">> \o ai \o <<" ">> \o W_fix),
        c(<<"@">> \o W_User \o <<"\n","\n">> \o W_hi \o <<"\n","\n">> \o AiResponseMarker),
        c(ai \o <<" ">> \o AiResponseMarker) }

RECURSIVE SeqsUpTo(_, _)
SeqsUpTo(S, n) ==
  IF n = 0 THEN { <<>> }
  ELSE LET shorter == SeqsUpTo(S, n - 1)
       IN  shorter \cup { Append(q, x) : q \in shorter, x \in S }

CommentLists == SeqsUpTo(StoredComments, MaxComments)

\* the status property of an error the comment store client throws; 0 is
\* an error without one (a network failure)
StoreStatuses == {0, 403, 404}

StoreError(status) ==
  [thrown |-> TRUE,
   message |-> << CASE status = 404 -> "Not Found"
                    [] status = 403 -> "Resource not accessible by integration"
                    [] OTHER -> "fetch failed" >>,
   status |-> status]

\* an Error created with new Error(message): no status property
PlainError(message) == [thrown |-> TRUE, message |-> message, status |-> 0]

NoError == [thrown |-> FALSE, message |-> <<>>, status |-> 0]

NoParse == [modelAlias |-> <<>>, modelIdentifier |-> Undefined, prompt |-> <<>>]

NoContext == [fetched |-> FALSE, comments |-> <<>>, history |-> <<>>]

(***************************************************************************)
(* State of one invocation.                                                *)
(***************************************************************************)
VARIABLES
  env,            \* process.env as read into config, lines 10-22
  commentBody,    \* config.github.commentBody
  pc,             \* where the script is: a step or an await
  modelMap,       \* main's modelMap, line 243
  parsed,         \* main's modelAlias, modelIdentifier and prompt
  issueContext,   \* what getIssueContext fetched and returned
  storeReads,     \* the read calls made to the comment store, in order
  aiRequests,     \* the calls made to the model backend, in order
  aiResponse,     \* main's aiResponse, line 284
  commentAuthor,  \* main's commentAuthor, line 294
  calls,          \* the calls of postCommentToIssue, in order
  writes,         \* the updateComment and createComment calls, in order
  err,            \* the error main's promise rejected with
  exitCode        \* the exit status of the process, -1 while it runs

vars == << env, commentBody, pc, modelMap, parsed, issueContext, storeReads,
           aiRequests, aiResponse, commentAuthor, calls, writes, err, exitCode >>

\* main's local variables and the calls it has made
mainVars == << modelMap, parsed, issueContext, storeReads, aiRequests,
               aiResponse, commentAuthor >>

Init ==
  /\ env \in Envs
  /\ commentBody \in (IF env = GoodEnv THEN CommentBodies ELSE { TriggerMarker \o W_hi })
  /\ pc = "validate"
  /\ modelMap = <<>>
  /\ parsed = NoParse
  /\ issueContext = NoContext
  /\ storeReads = <<>>
  /\ aiRequests = <<>>
  /\ aiResponse = <<>>
  /\ commentAuthor = <<>>
  /\ calls = <<>>
  /\ writes = <<>>
  /\ err = NoError
  /\ exitCode = -1

(***************************************************************************)
(* Validation, lines 31-39.                                                *)
(***************************************************************************)
\* config.ai.token, line 12
AiToken(e) == e.GH_AI_TOKEN \/ e.GITHUB_TOKEN

\* the conditions of lines 31 and 35, negated
ConfigValid(e, body) ==
  /\ AiToken(e)
  /\ e.GITHUB_TOKEN
  /\ body # <<>>
  /\ TruthyNum(ParseInt(e.ISSUE_NUMBER))
  /\ e.REPO_OWNER
  /\ e.REPO_NAME

Validate ==
  /\ pc = "validate"
  /\ IF ConfigValid(env, commentBody)
     THEN pc' = "main" /\ exitCode' = exitCode
     ELSE pc' = "exited" /\ exitCode' = 1
  /\ UNCHANGED << env, commentBody, mainVars, calls, writes, err >>

(***************************************************************************)
(* postCommentToIssue, lines 46-78.                                        *)
(***************************************************************************)
SetLastResult(ws, r) == [ws EXCEPT ![Len(ws)].result = r]

CreateWrite(call, body) ==
  [op |-> "createComment", call |-> call, comment_id |-> Null, body |-> body,
   result |-> "pending"]

UpdateWrite(call, id, body) ==
  [op |-> "updateComment", call |-> call, comment_id |-> id, body |-> body,
   result |-> "pending"]

\* lines 47-76 up to the first await: the call is made and its request started
BeginPost(body, processingCommentId, caller) ==
  /\ calls' = Append(calls, [body |-> body, processingCommentId |-> processingCommentId,
                             caller |-> caller])
  /\ IF TruthyNum(processingCommentId)
     THEN /\ writes' = Append(writes, UpdateWrite(Len(calls) + 1, processingCommentId, body))
          /\ pc' = "update_comment"
     ELSE /\ writes' = Append(writes, CreateWrite(Len(calls) + 1, body))
          /\ pc' = "create_comment"

\* lines 53-60 without the return of line 60
UpdateCommentOk_NoReturn ==
  /\ pc = "update_comment"
  /\ writes' = Append(SetLastResult(writes, "ok"),
                      CreateWrite(Len(calls), calls[Len(calls)].body))
  /\ pc' = "create_comment"
  /\ UNCHANGED << env, commentBody, mainVars, calls, err, exitCode >>

\* lines 53-60: the update succeeds and postCommentToIssue returns
UpdateCommentOk ==
  /\ pc = "update_comment"
  /\ writes' = SetLastResult(writes, "ok")
  /\ pc' = "resolved"
  /\ UNCHANGED << env, commentBody, mainVars, calls, err, exitCode >>

\* lines 61-76: the update throws, is logged, and createComment is called
UpdateCommentFails ==
  /\ pc = "update_comment"
  /\ writes' = Append(SetLastResult(writes, "failed"),
                      CreateWrite(Len(calls), calls[Len(calls)].body))
  /\ pc' = "create_comment"
  /\ UNCHANGED << env, commentBody, mainVars, calls, err, exitCode >>

\* lines 71-77, with an error thrown after the comment was created
CreateCommentOk_ThenThrows ==
  /\ pc = "create_comment"
  /\ writes' = SetLastResult(writes, "ok")
  /\ err' = PlainError(<<"write EPIPE">>)
  /\ pc' = "rejected"
  /\ UNCHANGED << env, commentBody, mainVars, calls, exitCode >>

\* lines 71-77
CreateCommentOk ==
  /\ pc = "create_comment"
  /\ writes' = SetLastResult(writes, "ok")
  /\ pc' = "resolved"
  /\ UNCHANGED << env, commentBody, mainVars, calls, err, exitCode >>

\* line 71: createComment throws and the error leaves main
CreateCommentFails ==
  /\ pc = "create_comment"
  /\ \E status \in StoreStatuses :
       err' = StoreError(status)
  /\ writes' = SetLastResult(writes, "failed")
  /\ pc' = "rejected"
  /\ UNCHANGED << env, commentBody, mainVars, calls, exitCode >>

(***************************************************************************)
(* main, lines 235-309.  Each action runs main from one await to the next. *)
(***************************************************************************)
\* line 236
CommentText == Trim(commentBody)

\* lines 236-241: not a command, main returns
MainSkip ==
  /\ pc = "main"
  /\ ~IsTrigger(CommentText)
  /\ pc' = "resolved"
  /\ UNCHANGED << env, commentBody, mainVars, calls, writes, err, exitCode >>

\* lines 243 and 117-125: loadModelMap throws
MainLoadFails ==
  /\ pc = "main"
  /\ IsTrigger(CommentText)
  /\ \E file \in ModelMapFiles :
       /\ file.state # "ok"
       /\ err' = PlainError(IF file.state = "missing"
                            THEN <<"CRITICAL: model-map.json not found in the action directory.">>
                            ELSE <<"Unexpected end of JSON input">>)
  /\ pc' = "rejected"
  /\ UNCHANGED << env, commentBody, mainVars, calls, writes, exitCode >>

\* lines 243-271: no model identifier, the problem is reported
MainNoModel ==
  /\ pc = "main"
  /\ IsTrigger(CommentText)
  /\ \E file \in ModelMapFiles :
       /\ file.state = "ok"
       /\ MainBranch(ParseCommand(CommentText, file.table)) = "no_model"
       /\ modelMap' = file.table
       /\ parsed' = ParseCommand(CommentText, file.table)
       /\ BeginPost(NoModelBody(file.table), Null, "no_model")
  /\ UNCHANGED << env, commentBody, issueContext, storeReads, aiRequests,
                  aiResponse, commentAuthor, err, exitCode >>

\* lines 243-278: empty prompt, the usage help is posted
MainEmptyPrompt ==
  /\ pc = "main"
  /\ IsTrigger(CommentText)
  /\ \E file \in ModelMapFiles :
       /\ file.state = "ok"
       /\ MainBranch(ParseCommand(CommentText, file.table)) = "help"
       /\ modelMap' = file.table
       /\ parsed' = ParseCommand(CommentText, file.table)
       /\ BeginPost(UsageBody(file.table), Null, "help")
  /\ UNCHANGED << env, commentBody, issueContext, storeReads, aiRequests,
                  aiResponse, commentAuthor, err, exitCode >>

\* lines 243-283 and 176: the command is accepted and the issue is requested
MainGenerate ==
  /\ pc = "main"
  /\ IsTrigger(CommentText)
  /\ \E file \in ModelMapFiles :
       /\ file.state = "ok"
       /\ MainBranch(ParseCommand(CommentText, file.table)) = "generate"
       /\ modelMap' = file.table
       /\ parsed' = ParseCommand(CommentText, file.table)
  /\ storeReads' = Append(storeReads, "issues.get")
  /\ pc' = "issues_get"
  /\ UNCHANGED << env, commentBody, issueContext, aiRequests, aiResponse,
                  commentAuthor, calls, writes, err, exitCode >>

\* lines 176-190: the issue arrives and its comments are requested
IssuesGetOk ==
  /\ pc = "issues_get"
  /\ storeReads' = Append(storeReads, "issues.listComments")
  /\ pc' = "list_comments"
  /\ UNCHANGED << env, commentBody, modelMap, parsed, issueContext, aiRequests,
                  aiResponse, commentAuthor, calls, writes, err, exitCode >>

\* line 176: issues.get throws
IssuesGetFails ==
  /\ pc = "issues_get"
  /\ \E status \in StoreStatuses : err' = StoreError(status)
  /\ pc' = "rejected"
  /\ UNCHANGED << env, commentBody, mainVars, calls, writes, exitCode >>

\* lines 186-232 and 284, 136-161: the comments arrive, the history is
\* built and the model backend is called
ListCommentsOk ==
  /\ pc = "list_comments"
  /\ \E comments \in CommentLists :
       issueContext' = [fetched |-> TRUE, comments |-> comments,
                        history |-> ConversationHistory(comments)]
  /\ aiRequests' = Append(aiRequests,
                          [model |-> parsed.modelIdentifier, prompt |-> parsed.prompt,
                           result |-> "pending", message |-> <<>>])
  /\ pc' = "chat_completions"
  /\ UNCHANGED << env, commentBody, modelMap, parsed, storeReads, aiResponse,
                  commentAuthor, calls, writes, err, exitCode >>

\* line 186: issues.listComments throws
ListCommentsFails ==
  /\ pc = "list_comments"
  /\ \E status \in StoreStatuses : err' = StoreError(status)
  /\ pc' = "rejected"
  /\ UNCHANGED << env, commentBody, mainVars, calls, writes, exitCode >>

\* line 305
ProcessingCommentId(value) == IF value # <<>> THEN ParseInt(value) ELSE Null

\* line 294
CommentAuthor(value) == IF value # <<>> THEN value ELSE W_User

\* lines 168 and 284-308: the completion arrives and is published
ChatOk ==
  /\ pc = "chat_completions"
  /\ \E response \in AiResponses, author \in CommentAuthors,
        id \in ProcessingCommentIds :
       /\ aiResponse' = response
       /\ commentAuthor' = CommentAuthor(author)
       /\ BeginPost(ResponseWithTag(CommentAuthor(author), response),
                    ProcessingCommentId(id), "response")
  /\ aiRequests' = [aiRequests EXCEPT ![Len(aiRequests)].result = "ok"]
  /\ UNCHANGED << env, commentBody, modelMap, parsed, issueContext, storeReads,
                  err, exitCode >>

\* lines 163-166: the backend answers with an error response
ChatUnexpected ==
  /\ pc = "chat_completions"
  /\ \E message \in BackendMessages :
       /\ aiRequests' = [aiRequests EXCEPT ![Len(aiRequests)].result = "error",
                                           ![Len(aiRequests)].message = message]
       /\ err' = PlainError(AiFailureMessage(message))
  /\ pc' = "rejected"
  /\ UNCHANGED << env, commentBody, modelMap, parsed, issueContext, storeReads,
                  aiResponse, commentAuthor, calls, writes, exitCode >>

\* line 151: the request itself throws (no response)
ChatThrows ==
  /\ pc = "chat_completions"
  /\ aiRequests' = [aiRequests EXCEPT ![Len(aiRequests)].result = "threw"]
  /\ err' = PlainError(<<"fetch failed">>)
  /\ pc' = "rejected"
  /\ UNCHANGED << env, commentBody, modelMap, parsed, issueContext, storeReads,
                  aiResponse, commentAuthor, calls, writes, exitCode >>

(***************************************************************************)
(* The end of the process.                                                 *)
(***************************************************************************)
\* line 316, with the error comment attempted whatever the status
NotifiesUser_Always(e) == TRUE

\* line 316: a 404 of the comment store is not reported to the issue
NotifiesUser(e) == e.status # 404

\* lines 311-325: the handler of main's rejection.  It runs to process.exit
\* in one turn: the createComment request that postCommentToIssue starts is
\* never awaited, and process.exit ends the process before any pending
\* asynchronous operation can take a step, so the request is abandoned.
Catch ==
  /\ pc = "rejected"
  /\ IF NotifiesUser(err)
     THEN /\ calls' = Append(calls, [body |-> CautionBody(err.message),
                                     processingCommentId |-> Null,
                                     caller |-> "handler"])
          /\ writes' = Append(writes,
                              [CreateWrite(Len(calls) + 1, CautionBody(err.message))
                                 EXCEPT !.result = "abandoned"])
     ELSE UNCHANGED << calls, writes >>
  /\ exitCode' = 1
  /\ pc' = "exited"
  /\ UNCHANGED << env, commentBody, mainVars, err >>

\* main's promise resolved: nothing is pending and the process ends normally
ProcessEnd ==
  /\ pc = "resolved"
  /\ exitCode' = 0
  /\ pc' = "exited"
  /\ UNCHANGED << env, commentBody, mainVars, calls, writes, err >>

Next ==
  \/ Validate
  \/ MainSkip
  \/ MainLoadFails
  \/ MainNoModel
  \/ MainEmptyPrompt
  \/ MainGenerate
  \/ IssuesGetOk
  \/ IssuesGetFails
  \/ ListCommentsOk
  \/ ListCommentsFails
  \/ ChatOk
  \/ ChatUnexpected
  \/ ChatThrows
  \/ UpdateCommentOk
  \/ UpdateCommentFails
  \/ CreateCommentOk
  \/ CreateCommentFails
  \/ Catch
  \/ ProcessEnd

Spec == Init /\ [][Next]_vars

(***************************************************************************)
(* Notions the properties below are stated with.  They are written from    *)
(* the statements, not from the script's way of computing them.            *)
(***************************************************************************)
Exited == pc = "exited"

\* the configuration passed validation
Validated == pc # "validate" /\ ~(pc = "exited" /\ exitCode = 1 /\ ~err.thrown)

\* the text of the triggering comment starts with the trigger marker
StartsWithMarker ==
  LET t == Trim(commentBody)
  IN  Len(t) >= 4 /\ t[1] = "/" /\ t[2] = "a" /\ t[3] = "i" /\ t[4] = " "

\* the command text: what follows the trigger marker, white space around it
\* removed
CommandText == Trim(SubSeq(Trim(commentBody), 5, Len(Trim(commentBody))))

\* the characters of s before its first white-space character
TakeToken(s) ==
  LET ws == { i \in 1..Len(s) : s[i] \in WhiteSpace }
  IN  IF ws = {} THEN s
      ELSE SubSeq(s, 1, (CHOOSE i \in ws : \A j \in ws : i <= j) - 1)

\* the first white-space-separated token of the command text
FirstToken == TakeToken(CommandText)

\* the command text after its first token
Remainder ==
  LET text == CommandText
  IN  TrimStart(SubSeq(text, Len(TakeToken(text)) + 1, Len(text)))

\* main has loaded the model map and parsed the command
Parsed == parsed.modelAlias # <<>>

\* the keys of the alias table equal to the first token, letter case ignored
MatchingKeys ==
  { i \in 1..Len(modelMap) : ToLowerCase(modelMap[i].key) = ToLowerCase(FirstToken) }

DefaultKeys == { i \in 1..Len(modelMap) : modelMap[i].key = W_default }

CallsBy(caller) == SelectSeq(calls, LAMBDA c : c.caller = caller)

WritesOf(k) == SelectSeq(writes, LAMBDA w : w.call = k)

\* a comment id: a positive number
IsCommentId(id) == id.t = "number" /\ id.n > 0

IsCautionWith(body, message) ==
  /\ body # <<>>
  /\ body[1] = CautionText
  /\ Includes(Tail(body), message)

IsUsageHelp(body) == body # <<>> /\ body[1] = UsageText

IsNoModelReport(body) ==
  /\ body # <<>>
  /\ body[1] = NoModelText
  /\ \A i \in 1..Len(modelMap) :
       modelMap[i].key # W_default => Includes(Tail(body), modelMap[i].key)

(***************************************************************************)
(* C1.  When the model backend answers with an error message M, then by    *)
(* the time the process has exited a new comment that holds M inside a     *)
(* caution block has been created on the issue, and the exit status is 1.  *)
(***************************************************************************)
C1_BackendFailureReported ==
  \A i \in 1..Len(aiRequests) :
    (Exited /\ aiRequests[i].result = "error") =>
       /\ exitCode = 1
       /\ \E w \in 1..Len(writes) :
            /\ writes[w].op = "createComment"
            /\ writes[w].result = "ok"
            /\ IsCautionWith(writes[w].body, aiRequests[i].message)

(***************************************************************************)
(* C2.  A triggering comment that is only the trigger marker, with nothing *)
(* but white space after it, gets the usage help posted and no backend     *)
(* call.                                                                   *)
(***************************************************************************)
IsBareMarker == Trim(commentBody) = <<"/","a","i">>

C2_BareMarkerGetsUsageHelp ==
  (Exited /\ Validated /\ ~err.thrown /\ IsBareMarker) =>
     /\ \E k \in 1..Len(calls) : IsUsageHelp(calls[k].body)
     /\ aiRequests = <<>>

(***************************************************************************)
(* C3.  postCommentToIssue calls createComment if and only if it was given *)
(* no comment id or the update of that comment failed: with an id, the     *)
(* first write is the update of that comment; a successful update is the   *)
(* only write; a failed update is followed by one createComment with the   *)
(* same body; without an id the one write is a createComment.              *)
(***************************************************************************)
C3_CreateIffNoIdOrUpdateFailed ==
  \A k \in 1..Len(calls) :
    LET c == calls[k]
        ws == WritesOf(k)
    IN  /\ Len(ws) >= 1
        /\ \A j \in 1..Len(ws) : ws[j].body = c.body
        /\ IF IsCommentId(c.processingCommentId)
           THEN /\ ws[1].op = "updateComment"
                /\ ws[1].comment_id = c.processingCommentId
                /\ ws[1].result \in {"pending", "ok"} => Len(ws) = 1
                /\ ws[1].result = "failed" =>
                     Len(ws) = 2 /\ ws[2].op = "createComment"
           ELSE Len(ws) = 1 /\ ws[1].op = "createComment"

\* an update that succeeded, and an update that failed and was followed by
\* a successful createComment, are both reached
C3_Witness ==
  /\ Exited
  /\ Len(calls) = 1
  /\ IsCommentId(calls[1].processingCommentId)
  /\ Len(writes) = 2
  /\ writes[1].op = "updateComment" /\ writes[1].result = "failed"
  /\ writes[2].op = "createComment" /\ writes[2].result = "ok"

(***************************************************************************)
(* C4.  As stated: every failure after configuration validation, whatever  *)
(* its status, has an error comment attempted by the top-level handler     *)
(* before the process exits with status 1.                                 *)
(***************************************************************************)
C4_EveryFailureNotified ==
  (Exited /\ err.thrown) =>
     /\ exitCode = 1
     /\ Len(CallsBy("handler")) = 1

(***************************************************************************)
(* C4, amended.  A failure whose status is not 404 has exactly one error   *)
(* comment attempted by the handler: a createComment without comment id    *)
(* whose body is the caution block holding the error's message; a failure  *)
(* with status 404 has none.  Either way the process exits with status 1,  *)
(* the attempt is made once, and without a failure the handler attempts    *)
(* nothing.                                                                *)
(***************************************************************************)
C4_FailureNotifiedUnless404 ==
  LET handled == { k \in 1..Len(calls) : calls[k].caller = "handler" }
  IN  /\ (~Exited \/ ~err.thrown) => handled = {}
      /\ (Exited /\ err.thrown) =>
           /\ exitCode = 1
           /\ IF err.status = 404
              THEN handled = {}
              ELSE /\ Cardinality(handled) = 1
                   /\ \A k \in handled :
                        /\ calls[k].processingCommentId = Null
                        /\ IsCautionWith(calls[k].body, err.message)
                        /\ Len(WritesOf(k)) = 1
                        /\ WritesOf(k)[1].op = "createComment"

C4_Witness ==
  /\ Exited
  /\ err.thrown
  /\ err.status = 403
  /\ exitCode = 1
  /\ Len(CallsBy("handler")) = 1

(***************************************************************************)
(* C5.  When the first token of the command equals a key of the alias      *)
(* table, letter case ignored, the parser yields that key as modelAlias,   *)
(* the table's value for it as modelIdentifier, and the command text after *)
(* that token as prompt.                                                   *)
(***************************************************************************)
C5_AliasTokenParsed ==
  (Parsed /\ MatchingKeys # {}) =>
     \E i \in MatchingKeys :
        /\ parsed.modelAlias = modelMap[i].key
        /\ parsed.modelIdentifier = modelMap[i].value
        /\ parsed.prompt = Remainder

(***************************************************************************)
(* C6.  When the first token of the command is not in the alias table, the *)
(* whole command text is the prompt, modelAlias is "default" and every     *)
(* backend call names the table's "default" identifier; with no "default"  *)
(* in the table the missing model is reported and the backend not called.  *)
(***************************************************************************)
C6_UnknownTokenUsesDefault ==
  (Parsed /\ MatchingKeys = {}) =>
     /\ parsed.modelAlias = W_default
     /\ parsed.prompt = CommandText
     /\ IF DefaultKeys # {}
        THEN \A r \in 1..Len(aiRequests) :
               /\ \E i \in DefaultKeys : aiRequests[r].model = modelMap[i].value
               /\ aiRequests[r].prompt = CommandText
        ELSE /\ aiRequests = <<>>
             /\ Len(calls) >= 1
             /\ IsNoModelReport(calls[1].body)

(***************************************************************************)
(* C7.  When neither the first token nor "default" has a model identifier  *)
(* in the table, the first thing the script does is post a comment that    *)
(* reports the problem and lists the aliases of the table, and it neither  *)
(* reads the comment store nor calls the backend; and a backend call names *)
(* the identifier of the alias the token selects, or else of "default".    *)
(***************************************************************************)
\* the value the table gives for key k, Undefined when it has none
ValueOf(k) ==
  IF \E i \in 1..Len(modelMap) : modelMap[i].key = k
  THEN modelMap[CHOOSE i \in 1..Len(modelMap) : modelMap[i].key = k].value
  ELSE Undefined

\* the token names nothing: no own key and nothing inherited
TokenUnknown(token) ==
  /\ ValueOf(token) = Undefined
  /\ token \notin {W_constructor, W_proto}

NoIdentifier == TokenUnknown(ToLowerCase(FirstToken)) /\ ValueOf(W_default) = Undefined

AliasOnly ==
  LET text == CommandText
  IN  /\ StartsWithMarker
      /\ text # <<>>
      /\ \A i \in 1..Len(text) : text[i] \notin WhiteSpace
      /\ ValueOf(ToLowerCase(text)) # Undefined

C8_PromptNonEmptyAtBackend ==
  /\ \A r \in 1..Len(aiRequests) :
       /\ aiRequests[r].prompt # <<>>
       /\ aiRequests[r].model \notin {Undefined, ""}
  /\ (Parsed /\ (parsed.prompt = <<>> \/ AliasOnly)) =>
       /\ Len(CallsBy("help")) = 1
       /\ calls[1].caller = "help"
       /\ IsUsageHelp(calls[1].body)
       /\ CallsBy("response") = <<>>
       /\ storeReads = <<>>
       /\ aiRequests = <<>>

C8_Witness ==
  /\ Exited
  /\ Parsed
  /\ AliasOnly
  /\ Len(calls) = 1
  /\ IsUsageHelp(calls[1].body)
  /\ writes[1].result = "ok"
  /\ exitCode = 0

(***************************************************************************)
(* C9.  The i-th history entry is built from the i-th fetched comment: a   *)
(* body whose trimmed text starts with the trigger marker gives role       *)
(* user_prompt and the text after the marker as content, also when white   *)
(* space precedes the marker; otherwise a body holding the hidden marker   *)
(* gives role assistant and the body without the leading mention and the   *)
(* marker; any other body gives role user and the whole body.              *)
(***************************************************************************)
\* the text of a prompt comment with the marker removed
MarkerRemoved(body) == Trim(SubSeq(Trim(body), 5, Len(Trim(body))))

IsPromptBody(body) ==
  LET t == Trim(body)
  IN  Len(t) >= 4 /\ SubSeq(t, 1, 4) = <<"/","a","i"," ">>

C9_HistoryFollowsComments ==
  issueContext.fetched =>
     /\ Len(issueContext.history) = Len(issueContext.comments)
     /\ \A i \in 1..Len(issueContext.comments) :
          LET body == issueContext.comments[i].body
              entry == issueContext.history[i]
          IN  IF IsPromptBody(body)
              THEN entry.role = "user_prompt" /\ entry.content = MarkerRemoved(body)
              ELSE IF Includes(body, AiResponseMarker)
              THEN /\ entry.role = "assistant"
                   /\ entry.content = Trim(StripMarker(StripMention(body)))
              ELSE entry.role = "user" /\ entry.content = body

(***************************************************************************)
(* C10.  When the trimmed text of the triggering comment does not start    *)
(* with the trigger marker, the script does nothing: it posts and updates  *)
(* no comment, does not read the comment store and does not call the       *)
(* backend.                                                                *)
(***************************************************************************)
C10_NoMarkerNoAction ==
  ~StartsWithMarker =>
     /\ calls = <<>>
     /\ writes = <<>>
     /\ storeReads = <<>>
     /\ aiRequests = <<>>
     /\ ~err.thrown

C10_Witness ==
  /\ Exited
  /\ exitCode = 0
  /\ commentBody # <<>>
  /\ Trim(commentBody) # <<>>
  /\ ~StartsWithMarker
  /\ calls = <<>>

(***************************************************************************)
(* C11.  The comment body main publishes for a completion R of the model   *)
(* ("@author", blank line, R, blank line, hidden marker) is classified by  *)
(* getIssueContext, when a later invocation fetches it, as an assistant    *)
(* entry whose content is R without the white space around it, whoever the *)
(* comment author is.                                                      *)
(***************************************************************************)
\* the comment the store returns for a published body
Published(body) ==
  [body |-> body, user |-> "github-actions[bot]", created_at |-> "2025-01-02T00:00:00Z"]

C11_PublishedResponseReadBack ==
  \A k \in 1..Len(calls) :
    calls[k].caller = "response" =>
      LET entry == ClassifyComment(Published(calls[k].body))
      IN  /\ calls[k].body =
               <<"@">> \o commentAuthor \o <<"\n","\n">> \o aiResponse \o <<"\n","\n">>
                       \o AiResponseMarker
          /\ entry.role = "assistant"
          /\ entry.content = Trim(aiResponse)

(***************************************************************************)
(* C12.  In one invocation at most one comment write (updateComment or     *)
(* createComment) completes successfully, whatever calls succeed or fail:  *)
(* after a successful write main returns normally and nothing more is      *)
(* written, and the handler attempts its error comment only when no write  *)
(* of the invocation has succeeded.                                        *)
(***************************************************************************)
SuccessfulWrites == { w \in 1..Len(writes) : writes[w].result = "ok" }

C12_AtMostOneSuccessfulWrite ==
  /\ Cardinality(SuccessfulWrites) <= 1
  /\ \A w \in SuccessfulWrites :
       /\ w = Len(writes)
       /\ calls[writes[w].call].caller # "handler"
       /\ ~err.thrown
       /\ pc \in {"resolved", "exited"}
       /\ Exited => exitCode = 0
  /\ CallsBy("handler") # <<>> => SuccessfulWrites = {}

\* the update fails, the fallback createComment fails, the handler attempts
\* its error comment: three writes, none successful
C12_Witness ==
  /\ Exited
  /\ Len(writes) = 3
  /\ writes[1].op = "updateComment" /\ writes[1].result = "failed"
  /\ writes[2].op = "createComment" /\ writes[2].result = "failed"
  /\ calls[writes[3].call].caller = "handler"
  /\ SuccessfulWrites = {}

=============================================================================
